---- MODULE Spec2Model ----
(***************************************************************************)
(* Model of tii_hf_dashboard.py: the family classifier categorize_model,   *)
(* the statistics computed by the script body from the fetched records,    *)
(* and the script's run cycle in front of the st.cache_data(ttl=300) cache *)
(* of fetch_tii_models.                                                    *)
(*                                                                         *)
(* Python strings are TLA+ strings; "p in s" is In(p, s); str.lower() is   *)
(* Lower, computed character by character on the ASCII letters.            *)
(* A JSON number n is <<n>>, JSON null and a DataFrame NaN cell are <<>>;  *)
(* a JSON object is a function whose DOMAIN is the set of keys present.    *)
(***************************************************************************)
EXTENDS Integers, Sequences, FiniteSets, TLC

VARIABLES
    model_id,      \* classifier: the argument of categorize_model
    calls,         \* classifier: the labels returned by the calls made so far
    cache,         \* <<>> or <<entry>>: the single st.cache_data entry of fetch_tii_models
    age,           \* seconds since the cache entry was stored (capped at TTL)
    auto_refresh,  \* the sidebar checkbox (line 59)
    trigger,       \* what started the last script run
    requested,     \* the last run issued requests.get (line 72)
    fetch_failed,  \* the last run's requests.get / raise_for_status / json raised
    last_success,  \* <<>> or <<body>>: the body of the most recent successful fetch
    models_data,   \* line 115
    outcome,       \* "none" | "report" | "error" | "crash" : how the last run ended
    shown,         \* the st.error messages on the page after the last run
    report         \* the statistics of the last run (NoReport when none)

vars == <<model_id, calls, cache, age, auto_refresh, trigger, requested,
          fetch_failed, last_success, models_data, outcome, shown, report>>

-----------------------------------------------------------------------------
(* Python string primitives *)

Uppers == "ABCDEFGHIJKLMNOPQRSTUVWXYZ"
Lowers == "abcdefghijklmnopqrstuvwxyz"

\* the case mappings of the ASCII letters
ToLower ==
    [c \in { SubSeq(Uppers, i, i) : i \in 1..Len(Uppers) } |->
        LET i == CHOOSE k \in 1..Len(Uppers) : SubSeq(Uppers, k, k) = c
        IN  SubSeq(Lowers, i, i)]

ToUpper ==
    [c \in { SubSeq(Lowers, i, i) : i \in 1..Len(Lowers) } |->
        LET i == CHOOSE k \in 1..Len(Lowers) : SubSeq(Lowers, k, k) = c
        IN  SubSeq(Uppers, i, i)]

\* str.lower() on one character: other characters are unchanged
LowerChar(c) == IF c \in DOMAIN ToLower THEN ToLower[c] ELSE c

\* str.upper() on one character
UpperChar(c) == IF c \in DOMAIN ToUpper THEN ToUpper[c] ELSE c

RECURSIVE Upper(_)
\* str.upper()
Upper(s) ==
    IF Len(s) = 0 THEN ""
    ELSE UpperChar(SubSeq(s, 1, 1)) \o Upper(SubSeq(s, 2, Len(s)))

\* the id folded with upper() where the code calls lower()
LowerAsUpper(s) == Upper(s)

RECURSIVE Lower(_)
\* str.lower()
Lower(s) ==
    IF Len(s) = 0 THEN ""
    ELSE LowerChar(SubSeq(s, 1, 1)) \o Lower(SubSeq(s, 2, Len(s)))

\* the Python expression  p in s  on strings
In(p, s) ==
    \E i \in 1..(Len(s) - Len(p) + 1) : SubSeq(s, i, i + Len(p) - 1) = p

-----------------------------------------------------------------------------
(* categorize_model, lines 81-111 *)

\* the chain with the first two branches swapped
categorize_chain_swapped(model_name) ==
    IF In("falcon-h1", model_name) \/ In("falcon_h1", model_name)
        THEN "Falcon H1"
    ELSE IF In("falcon-h1r", model_name) \/ In("falcon_h1r", model_name)
            \/ In("h1-reasoning", model_name) \/ In("h1r", model_name)
        THEN "Falcon H1-R"
    ELSE IF In("falcon3", model_name)
        THEN "Falcon 3"
    ELSE IF In("falcon-11b", model_name) \/ In("falcon-2", model_name)
            \/ In("falcon2", model_name)
        THEN "Falcon 2"
    ELSE IF In("falcon-arabic", model_name)
        THEN "Falcon Arabic"
    ELSE IF In("falcon-mamba", model_name) \/ In("mamba", model_name)
        THEN "Falcon Mamba"
    ELSE IF In("falcon-e", model_name) \/ In("edge", model_name)
        THEN "Falcon Edge"
    ELSE IF In("falcon-180b", model_name) \/ In("falcon-7b", model_name)
            \/ In("falcon-40b", model_name)
        THEN "Falcon"
    ELSE IF In("falcon-refinedweb", model_name) \/ In("falcon-rw", model_name)
        THEN "Falcon RefinedWeb"
    ELSE IF In("viscon", model_name)
        THEN "VisCon"
    ELSE IF In("visper", model_name)
        THEN "ViSpeR"
    ELSE IF In("dense", model_name)
        THEN "Dense Architecture"
    ELSE "Other"

\* the if / elif chain of lines 85-111 on the lower-cased name
categorize_chain(model_name) ==
    IF In("falcon-h1r", model_name) \/ In("falcon_h1r", model_name)
            \/ In("h1-reasoning", model_name) \/ In("h1r", model_name)
        THEN "Falcon H1-R"
    ELSE IF In("falcon-h1", model_name) \/ In("falcon_h1", model_name)
        THEN "Falcon H1"
    ELSE IF In("falcon3", model_name)
        THEN "Falcon 3"
    ELSE IF In("falcon-11b", model_name) \/ In("falcon-2", model_name)
            \/ In("falcon2", model_name)
        THEN "Falcon 2"
    ELSE IF In("falcon-arabic", model_name)
        THEN "Falcon Arabic"
    ELSE IF In("falcon-mamba", model_name) \/ In("mamba", model_name)
        THEN "Falcon Mamba"
    ELSE IF In("falcon-e", model_name) \/ In("edge", model_name)
        THEN "Falcon Edge"
    ELSE IF In("falcon-180b", model_name) \/ In("falcon-7b", model_name)
            \/ In("falcon-40b", model_name)
        THEN "Falcon"
    ELSE IF In("falcon-refinedweb", model_name) \/ In("falcon-rw", model_name)
        THEN "Falcon RefinedWeb"
    ELSE IF In("viscon", model_name)
        THEN "VisCon"
    ELSE IF In("visper", model_name)
        THEN "ViSpeR"
    ELSE IF In("dense", model_name)
        THEN "Dense Architecture"
    ELSE "Other"

\* categorize_model without its final else: falling through returns None
categorize_model_no_else(id) ==
    LET label == categorize_chain(Lower(id))
    IN  IF label = "Other" THEN "None" ELSE label

\* categorize_model: lower-case the id (line 83), then the chain
categorize_model(id) == categorize_chain(Lower(id))

-----------------------------------------------------------------------------
(* The script body on the fetched records, lines 117-231 *)

\* nlargest(10, ...) of line 152
TopN == 10

\* a DataFrame cell with no value
NaN == <<>>

\* pd.DataFrame(models_data).columns: the keys of any record (line 119)
Columns(md) == UNION { DOMAIN md[i] : i \in DOMAIN md }

\* df[col]: the column, NaN where the record has no such key
Column(md, col) ==
    [i \in DOMAIN md |-> IF col \in DOMAIN md[i] THEN md[i][col] ELSE NaN]

\* .fillna(0).astype(int) of lines 123-124
FillnaInt(column) ==
    [i \in DOMAIN column |-> IF column[i] = NaN THEN 0 ELSE column[i][1]]

RECURSIVE SumSeq(_)
\* Series.sum()
SumSeq(q) == IF Len(q) = 0 THEN 0 ELSE Head(q) + SumSeq(Tail(q))

\* the rows of the frame whose family is f, in frame order
GroupRows(family, f) == { i \in DOMAIN family : family[i] = f }

RECURSIVE SumOver(_, _)
\* the sum of column q over the rows I
SumOver(q, I) ==
    IF I = {} THEN 0
    ELSE LET i == CHOOSE k \in I : TRUE IN q[i] + SumOver(q, I \ {i})

\* a groupby that keeps only the first row of each family
family_breakdown_first_row(family, downloads, likes) ==
    { [ Family         |-> f,
        ModelCount     |-> 1,
        TotalDownloads |-> downloads[CHOOSE i \in GroupRows(family, f) :
                                        \A j \in GroupRows(family, f) : i <= j],
        TotalLikes     |-> likes[CHOOSE i \in GroupRows(family, f) :
                                        \A j \in GroupRows(family, f) : i <= j] ]
      : f \in { family[i] : i \in DOMAIN family } }

\* df.groupby('family').agg(model_id count, downloads sum, likes sum),
\* lines 197-202: one row per family that occurs in the frame
family_breakdown(family, downloads, likes) ==
    { [ Family         |-> f,
        ModelCount     |-> Cardinality(GroupRows(family, f)),
        TotalDownloads |-> SumOver(downloads, GroupRows(family, f)),
        TotalLikes     |-> SumOver(likes, GroupRows(family, f)) ]
      : f \in { family[i] : i \in DOMAIN family } }

\* the rows I in the order of a stable (mergesort) argsort of arr
StableArgsort(arr, I) ==
    LET rank(i) == Cardinality({ j \in I : arr[j] < arr[i]
                                            \/ (arr[j] = arr[i] /\ j < i) }) + 1
    IN  [k \in 1..Cardinality(I) |-> CHOOSE i \in I : rank(i) = k]

\* libalgos.kth_smallest(arr, k), k counted from 0
KthSmallest(arr, k) ==
    LET vals == { arr[i] : i \in DOMAIN arr }
    IN  CHOOSE v \in vals :
            /\ Cardinality({ i \in DOMAIN arr : arr[i] < v }) <= k
            /\ Cardinality({ i \in DOMAIN arr : arr[i] <= v }) > k

\* the orders Series.sort_values(ascending=False) may return: the default
\* kind is quicksort, which promises no order among equal values
SortValuesDescending(column) ==
    { p \in [DOMAIN column -> DOMAIN column] :
        /\ \A i, j \in DOMAIN column : i # j => p[i] # p[j]
        /\ \A i, j \in DOMAIN column : i < j => column[p[i]] >= column[p[j]] }

\* df.nlargest(n, 'downloads') (keep='first'), line 152, as the row labels it
\* may return in order.  pandas: with n >= len(df) the result is
\* sort_values(ascending=False).head(n); otherwise the rows not above the
\* n-th largest value are argsorted with mergesort on the negated values and
\* the first n are taken.
nlargest(n, column) ==
    IF n >= Len(column)
    THEN SortValuesDescending(column)
    ELSE LET arr     == [i \in DOMAIN column |-> 0 - column[i]]
             kth_val == KthSmallest(arr, n - 1)
             ns      == { i \in DOMAIN column : arr[i] <= kth_val }
         IN  { SubSeq(StableArgsort(arr, ns), 1, n) }

NoReport == <<>>

FailedToFetch == "Failed to fetch data from Hugging Face. Please try again later."

\* lines 119-131, 152 and 197-202 once the three columns exist; top is the
\* order nlargest returned
Statistics(md, top) ==
    LET downloads == FillnaInt(Column(md, "downloads"))
        likes     == FillnaInt(Column(md, "likes"))
        family    == [i \in DOMAIN md |-> categorize_model(md[i]["id"])]
    IN  [ downloads        |-> downloads,
          likes            |-> likes,
          family           |-> family,
          total_models     |-> Len(md),
          total_downloads  |-> SumSeq(downloads),
          total_likes      |-> SumSeq(likes),
          avg_downloads    |-> SumSeq(downloads) \div Len(md),
          top_models       |-> top,
          family_breakdown |-> family_breakdown(family, downloads, likes) ]

\* the ways the script body can end on models_data = md:
\*   []                       line 117 is false: st.error of line 231
\*   a column does not exist  df['id'], df['downloads'] or df['likes'] raises
\*                            KeyError (lines 122-124): the run stops there
\*   a record has no id       its model_id is NaN, a float: .lower() raises
\*                            AttributeError in the apply of line 125
\*   otherwise                the statistics, one per order nlargest may return
BodyResults(md) ==
    IF Len(md) = 0
    THEN { [outcome |-> "error", errors |-> {FailedToFetch}, report |-> NoReport] }
    ELSE IF \/ ~ ({"id", "downloads", "likes"} \subseteq Columns(md))
            \/ \E i \in DOMAIN md : "id" \notin DOMAIN md[i]
    THEN { [outcome |-> "crash", errors |-> {}, report |-> NoReport] }
    ELSE { [outcome |-> "report", errors |-> {}, report |-> Statistics(md, top)]
           : top \in nlargest(TopN, FillnaInt(Column(md, "downloads"))) }

-----------------------------------------------------------------------------
(* fetch_tii_models behind st.cache_data(ttl=300), lines 67-78 and 115 *)

\* ttl=300 of line 67, in seconds
TTL == 300
\* time.sleep(30) of line 235, in seconds
AutoRefreshSleep == 30

NoCache == <<>>

\* fetch_tii_models with no try / except: the failure propagates
fetch_tii_models_unguarded(resp) ==
    IF resp.ok
    THEN [raised |-> FALSE, value |-> resp.body, errors |-> {}, failed |-> FALSE]
    ELSE [raised |-> TRUE, value |-> <<>>, errors |-> {}, failed |-> TRUE]

\* the body of fetch_tii_models on the outcome resp of requests.get,
\* raise_for_status and json (lines 70-78): the value returned, the st.error
\* elements written, and whether the except branch was taken
fetch_tii_models(resp) ==
    IF resp.ok
    THEN [raised |-> FALSE, value |-> resp.body, errors |-> {}, failed |-> FALSE]
    ELSE [raised |-> FALSE, value |-> <<>>,
          errors |-> {"Error fetching models: " \o resp.error}, failed |-> TRUE]

Min(a, b) == IF a < b THEN a ELSE b

\* st.cache_data: the entry is served while it is younger than ttl
CacheHit(c, a) == c # NoCache /\ a < TTL

\* One complete run of the script (lines 114-231) started by trig after
\* elapsed seconds, with the checkbox at auto, against a catalog that answers
\* one of responses.  A cache miss calls the function and stores whatever it
\* returns, with the elements it wrote; a hit returns the stored value and
\* replays the stored elements.  An exception leaving the function would store
\* nothing and end the run at line 115 (the function as written raises none).
RunScript(trig, auto, elapsed, responses) ==
    LET now == Min(age + elapsed, TTL) IN
    /\ trigger' = trig
    /\ auto_refresh' = auto
    /\ \E resp \in responses :
         LET hit   == CacheHit(cache, now)
             r     == IF hit THEN cache[1] ELSE fetch_tii_models(resp)
         IN  /\ requested' = ~ hit
             /\ fetch_failed' = (~ hit /\ r.failed)
             /\ cache' = IF hit \/ r.raised THEN cache ELSE <<r>>
             /\ age' = IF hit \/ r.raised THEN now ELSE 0
             /\ last_success' = IF ~ hit /\ resp.ok THEN <<resp.body>>
                                ELSE last_success
             /\ IF r.raised
                THEN /\ models_data' = <<>>
                     /\ outcome' = "crash"
                     /\ shown' = {}
                     /\ report' = NoReport
                ELSE /\ models_data' = r.value
                     /\ \E b \in BodyResults(r.value) :
                          /\ outcome' = b.outcome
                          /\ shown' = r.errors \cup b.errors
                          /\ report' = b.report
    /\ UNCHANGED <<model_id, calls>>

-----------------------------------------------------------------------------
(* Bounds *)

\* classifier inputs are concatenations of at most MaxFrags fragments
MaxFrags == 2
\* the catalog of the run cycle answers with at most MaxCycleRecords records
MaxCycleRecords == 1
\* the user stays idle for at most MaxIdle auto-refresh periods at a time
MaxIdle == 3
\* short record sequences given to the script body have at most MaxRecords records
MaxRecords == 2
\* long record sequences have TopN + 1 .. TopN + MaxExtra records
MaxExtra == 1

-----------------------------------------------------------------------------
(* The run cycle: Spec *)

CycleRecords ==
    { [id |-> "tiiuae/Falcon-H1R-7B", downloads |-> <<5>>, likes |-> <<>>],
      [id |-> "tiiuae/falcon-h1"] }

RECURSIVE SeqsUpTo(_, _)
\* the sequences over S of length at most n
SeqsUpTo(S, n) ==
    IF n = 0 THEN { <<>> }
    ELSE LET shorter == SeqsUpTo(S, n - 1)
         IN  shorter \cup { Append(q, x) : q \in shorter, x \in S }

\* what the catalog request can end in: a JSON array, or one of the failures
\* the except branch catches
Responses ==
    { [ok |-> TRUE, body |-> b, error |-> ""] : b \in SeqsUpTo(CycleRecords, MaxCycleRecords) }
    \cup { [ok |-> FALSE, body |-> <<>>, error |-> e]
           : e \in {"timeout", "connection error", "HTTP 503", "invalid JSON"} }

ClassifierIdle == model_id = "" /\ calls = <<>>

\* the variables of the run cycle, before any run
CycleIdle ==
    /\ cache = NoCache
    /\ age = 0
    /\ auto_refresh = FALSE
    /\ trigger = "none"
    /\ requested = FALSE
    /\ fetch_failed = FALSE
    /\ last_success = <<>>
    /\ models_data = <<>>
    /\ outcome = "none"
    /\ shown = {}
    /\ report = NoReport

CycleVars == <<cache, age, auto_refresh, trigger, requested, fetch_failed,
               last_success, models_data, outcome, shown, report>>

Init == ClassifierIdle /\ CycleIdle

\* a browser opens the page: a new session, the checkbox at its default
PageLoad == RunScript("load", FALSE, 0, Responses)

\* the user presses "Refresh Now" (lines 60-61): st.rerun() restarts the script
RefreshNow ==
    /\ trigger # "none"
    /\ RunScript("refresh_now", auto_refresh, 0, Responses)

\* the user flips the auto-refresh checkbox (line 59): the script reruns
ToggleAutoRefresh ==
    /\ trigger # "none"
    /\ RunScript("checkbox", ~ auto_refresh, 0, Responses)

\* lines 234-236: a run that reached the end of the script with the checkbox
\* set sleeps 30 s and reruns
AutoRefresh ==
    /\ auto_refresh
    /\ outcome \in {"report", "error"}
    /\ RunScript("auto", auto_refresh, AutoRefreshSleep, Responses)

\* time passes with no run
Idle ==
    /\ trigger # "none"
    /\ age < TTL
    /\ \E k \in 1..MaxIdle : age' = Min(age + k * AutoRefreshSleep, TTL)
    /\ UNCHANGED <<model_id, calls, cache, auto_refresh, trigger, requested,
                   fetch_failed, last_success, models_data, outcome, shown, report>>

Next == PageLoad \/ RefreshNow \/ ToggleAutoRefresh \/ AutoRefresh \/ Idle

Spec == Init /\ [][Next]_vars

-----------------------------------------------------------------------------
(* The script body under test: SpecAggregate *)

AggIds == { "tiiuae/Falcon-H1R-7B", "tiiuae/h1r", "tiiuae/falcon-h1" }

\* how a numeric field comes in a JSON object
Absent == <<"absent">>
Null == <<"null">>
Num(n) == <<"num", n>>

\* a JSON object with the given id; downloads and likes are a number, null
\* or absent
Record(id, d, l) ==
    [k \in {"id"} \cup (IF d[1] = "absent" THEN {} ELSE {"downloads"})
                  \cup (IF l[1] = "absent" THEN {} ELSE {"likes"})
       |-> IF k = "id" THEN id
           ELSE IF k = "downloads" THEN (IF d[1] = "null" THEN <<>> ELSE <<d[2]>>)
           ELSE (IF l[1] = "null" THEN <<>> ELSE <<l[2]>>)]

AggRecords ==
    { Record(id, d, Num(1)) : id \in AggIds, d \in {Absent, Null, Num(1), Num(2)} }
    \cup { Record(id, Num(2), l) : id \in AggIds, l \in {Absent, Null} }

\* more than TopN records that differ in their downloads only
LongCatalogs ==
    UNION { { [i \in 1..n |-> Record("tiiuae/h1r", Num(d[i]), Num(1))]
              : d \in [1..n -> {1, 2}] }
            : n \in (TopN + 1)..(TopN + MaxExtra) }

AggInputs == SeqsUpTo(AggRecords, MaxRecords) \cup LongCatalogs

\* the state after line 115 returned md
InitAggregate ==
    /\ ClassifierIdle
    /\ cache = NoCache
    /\ age = 0
    /\ auto_refresh = FALSE
    /\ trigger = "load"
    /\ requested = TRUE
    /\ fetch_failed = FALSE
    /\ models_data \in AggInputs
    /\ last_success = <<models_data>>
    /\ outcome = "none"
    /\ shown = {}
    /\ report = NoReport

\* lines 117-231 on models_data
Process ==
    /\ outcome = "none"
    /\ \E b \in BodyResults(models_data) :
         /\ outcome' = b.outcome
         /\ shown' = b.errors
         /\ report' = b.report
    /\ UNCHANGED <<model_id, calls, cache, age, auto_refresh, trigger, requested,
                   fetch_failed, last_success, models_data>>

NextAggregate == Process

SpecAggregate == InitAggregate /\ [][NextAggregate]_vars

-----------------------------------------------------------------------------
(* The classifier under test: SpecClassify *)

\* the closed label set of the classifier, in the priority order of its rules
\* (spec section 4.1; "Other" is the fallback)
Labels ==
    << "Falcon H1-R", "Falcon H1", "Falcon 3", "Falcon 2", "Falcon Arabic",
       "Falcon Mamba", "Falcon Edge", "Falcon", "Falcon RefinedWeb", "VisCon",
       "ViSpeR", "Dense Architecture", "Other" >>

\* the patterns of rules 1..12, rule by rule (spec section 4.1)
Patterns ==
    << {"falcon-h1r", "falcon_h1r", "h1-reasoning", "h1r"},
       {"falcon-h1", "falcon_h1"},
       {"falcon3"},
       {"falcon-11b", "falcon-2", "falcon2"},
       {"falcon-arabic"},
       {"falcon-mamba", "mamba"},
       {"falcon-e", "edge"},
       {"falcon-180b", "falcon-7b", "falcon-40b"},
       {"falcon-refinedweb", "falcon-rw"},
       {"viscon"},
       {"visper"},
       {"dense"} >>

AllPatterns == UNION { Patterns[r] : r \in DOMAIN Patterns }

\* pieces of model identifiers: every pattern of the chain (some in upper or
\* mixed case), pieces that form a pattern only when joined, and fillers
Fragments ==
    { "tiiuae/", "-7b", "r", "e", "3", "Falcon", "falcon-", "h1",
      "falcon_h1", "h1-reasoning", "Mamba", "Edge", "falcon-RW", "VisCon",
      "dense" }

RECURSIVE Concats(_)
\* the strings made of at most n fragments
Concats(n) ==
    IF n = 0 THEN {""}
    ELSE LET shorter == Concats(n - 1)
         IN  shorter \cup { s \o f : s \in shorter, f \in Fragments }

\* the identifiers the spec gives as examples (section 8)
Examples ==
    { "tiiuae/falcon-h1r-7b", "tiiuae/falcon-180B", "tiiuae/unknown-model-xyz" }

ClassifierInputs ==
    LET c == Concats(MaxFrags)
    IN  c \cup { Upper(s) : s \in c } \cup AllPatterns \cup Examples

InitClassify ==
    /\ model_id \in ClassifierInputs
    /\ calls = <<>>
    /\ CycleIdle

\* the call categorize_model(model_id)
Classify ==
    /\ calls = <<>>
    /\ calls' = <<categorize_model(model_id)>>
    /\ UNCHANGED <<model_id, CycleVars>>

\* the same call once more
ClassifyAgain ==
    /\ Len(calls) = 1
    /\ calls' = Append(calls, categorize_model(model_id))
    /\ UNCHANGED <<model_id, CycleVars>>

NextClassify == Classify \/ ClassifyAgain

SpecClassify == InitClassify /\ [][NextClassify]_vars

-----------------------------------------------------------------------------
(* Claims about the classifier, checked under SpecClassify *)

LabelSet == { Labels[k] : k \in DOMAIN Labels }

\* C1: for every input string (the empty string and strings matching several
\* rules included) every call of categorize_model returns one label of the
\* fixed 13-label set, repeated calls on the same string return the same
\* label, and the empty string yields Other.
C1_OneLabelOfTheClosedSet ==
    /\ Cardinality(LabelSet) = 13
    /\ \A i \in DOMAIN calls :
         /\ calls[i] \in LabelSet
         /\ calls[i] = calls[1]
         /\ model_id = "" => calls[i] = "Other"

\* the empty string has been classified twice
C1_Witness ==
    /\ model_id = ""
    /\ Len(calls) >= 2
    /\ calls[1] = "Other" /\ calls[2] = "Other"

\* the label of the lowest-numbered rule of the spec's list one of whose
\* patterns occurs in name, Other when there is none
FirstRuleLabel(name) ==
    LET matching == { r \in DOMAIN Patterns : \E p \in Patterns[r] : In(p, name) }
    IN  IF matching = {} THEN "Other"
        ELSE Labels[CHOOSE r \in matching : \A q \in matching : r <= q]

\* C2: categorize_model(s) is the label of the lowest-numbered rule (spec
\* order 1..12) with a pattern that is a substring of lowercase(s), Other when
\* no rule matches; an identifier containing both "falcon-h1" and "h1r" is
\* Falcon H1-R; and the label does not depend on the letter case of s.
C2_FirstMatchingRuleWins ==
    calls # <<>> =>
        /\ calls[1] = FirstRuleLabel(Lower(model_id))
        /\ (In("falcon-h1", Lower(model_id)) /\ In("h1r", Lower(model_id)))
               => calls[1] = "Falcon H1-R"
        /\ categorize_model(Upper(model_id)) = calls[1]
        /\ categorize_model(Lower(model_id)) = calls[1]

\* an identifier that matches rule 1 and rule 2 has been classified
C2_Witness ==
    /\ model_id = "tiiuae/falcon-h1r-7b"
    /\ In("falcon-h1", model_id) /\ In("h1r", model_id)
    /\ calls # <<>>
    /\ calls[1] = "Falcon H1-R"

\* each pattern rule has a pattern classified, alone, to the rule's own label;
\* Other is returned for some input
EveryRuleHasALivePattern ==
    /\ \A r \in DOMAIN Patterns :
         \E p \in Patterns[r] : categorize_model(p) = Labels[r]
    /\ \E s \in {"", "tiiuae/unknown-model-xyz"} : categorize_model(s) = "Other"

\* C10: no rule is dead: each of the 12 pattern rules has a pattern that,
\* taken alone as the input, is classified to the rule's own label, and Other
\* is returned for some input, so each of the 13 labels is returned for some
\* string.
C10_NoDeadRule ==
    /\ EveryRuleHasALivePattern
    /\ (calls # <<>> /\ model_id \in {"h1r", "falcon-h1", "falcon3", "falcon-11b",
                                       "falcon-arabic", "mamba", "edge",
                                       "falcon-180b", "falcon-rw", "viscon",
                                       "visper", "dense"})
           => \E r \in DOMAIN Patterns : model_id \in Patterns[r] /\ calls[1] = Labels[r]

\* the last rule's only pattern, alone, has been classified to its own label
C10_Witness ==
    /\ model_id = "dense"
    /\ calls # <<>>
    /\ calls[1] = "Dense Architecture"

-----------------------------------------------------------------------------
(* Claims about the statistics, checked under SpecAggregate *)

RECURSIVE SumRows(_, _)
\* the sum of a field over the rows of the breakdown
SumRows(rows, field) ==
    IF rows = {} THEN 0
    ELSE LET row == CHOOSE x \in rows : TRUE
         IN  row[field] + SumRows(rows \ {row}, field)

\* C3: in every report the family breakdown partitions the input: the
\* families' total downloads, model counts and total likes add up to
\* totalDownloads, totalModels and totalLikes; every family that labels an
\* input record has exactly one row, and no row has a family without records.
C3_FamilyBreakdownPartitionsInput ==
    outcome = "report" =>
        LET rows   == report.family_breakdown
            labels == { categorize_model(models_data[i]["id"]) : i \in DOMAIN models_data }
        IN  /\ SumRows(rows, "TotalDownloads") = report.total_downloads
            /\ SumRows(rows, "ModelCount") = report.total_models
            /\ SumRows(rows, "TotalLikes") = report.total_likes
            /\ report.total_models = Len(models_data)
            /\ \A f \in labels : Cardinality({ row \in rows : row.Family = f }) = 1
            /\ \A row \in rows : row.ModelCount >= 1 /\ row.Family \in labels

\* a report on two records of one family with different downloads
C3_Witness ==
    /\ outcome = "report"
    /\ Len(models_data) = 2
    /\ \E row \in report.family_breakdown :
         /\ row.Family = "Falcon H1-R"
         /\ row.ModelCount = 2
         /\ row.TotalDownloads = 3
         /\ row.TotalLikes = 2

C4_TopTenDescending ==
    outcome = "report" =>
        LET top == report.top_models
            dl  == report.downloads
            n   == Len(models_data)
            in  == { top[k] : k \in DOMAIN top }
        IN  /\ Len(top) = Min(TopN, n)
            /\ in \subseteq 1..n
            /\ Cardinality(in) = Len(top)
            /\ \A a, b \in DOMAIN top : a < b => dl[top[a]] >= dl[top[b]]
            /\ \A i \in (1..n) \ in : \A j \in in : dl[i] <= dl[j]
            /\ n > TopN => \A a, b \in DOMAIN top :
                 (a < b /\ dl[top[a]] = dl[top[b]]) => top[a] < top[b]
            /\ \A i \in (1..n) \ in : \A j \in in : dl[i] = dl[j] => j < i

\* the downloads a record contributes when null and absent count as 0
Normalized(rec, field) ==
    IF field \in DOMAIN rec /\ rec[field] # <<>> THEN rec[field][1] ELSE 0

\* C9: for every non-empty fetched sequence whose records all have an id, the
\* run ends with a report in which a null or absent downloads or likes counts
\* as 0 in every aggregate, also when the field is absent from every record.
C9_NullOrAbsentCountsAsZero ==
    (outcome # "none" /\ Len(models_data) > 0
         /\ \A i \in DOMAIN models_data : "id" \in DOMAIN models_data[i]) =>
        /\ outcome = "report"
        /\ \A i \in DOMAIN models_data :
             /\ report.downloads[i] = Normalized(models_data[i], "downloads")
             /\ report.likes[i] = Normalized(models_data[i], "likes")
        /\ report.total_downloads =
             SumSeq([i \in DOMAIN models_data |-> Normalized(models_data[i], "downloads")])
        /\ report.total_likes =
             SumSeq([i \in DOMAIN models_data |-> Normalized(models_data[i], "likes")])
        /\ report.avg_downloads = report.total_downloads \div Len(models_data)

-----------------------------------------------------------------------------
(* Claims about the run cycle, checked under Spec *)

\* C5: in every run in which the catalog fetch fails, no exception
\* propagates, the fetch result is the empty record set, a failure indication
\* is shown, and no statistics are computed: the run ends with the error
\* message and no report.
C5_FetchFailureIsContained ==
    fetch_failed =>
        /\ outcome = "error"
        /\ models_data = <<>>
        /\ FailedToFetch \in shown
        /\ \E m \in shown : m # FailedToFetch
        /\ report = NoReport

\* a run whose request timed out
C5_Witness ==
    /\ fetch_failed
    /\ requested
    /\ "Error fetching models: timeout" \in shown
    /\ outcome = "error"

\* the report of an empty record sequence
ZeroReport(r) ==
    /\ r.total_models = 0
    /\ r.total_downloads = 0
    /\ r.total_likes = 0
    /\ r.avg_downloads = 0
    /\ r.top_models = <<>>
    /\ r.family_breakdown = {}

\* C6: when the fetch succeeds and returns an empty record sequence, the run
\* produces a report (not an error outcome) with all totals 0, an empty
\* top-by-downloads list and an empty family breakdown.
C6_EmptyCatalogGivesZeroReport ==
    (requested /\ ~ fetch_failed /\ models_data = <<>>) =>
        /\ outcome = "report"
        /\ shown = {}
        /\ ZeroReport(report)

\* C7: a run served from the cache receives the raw result of the most recent
\* successful fetch; the result of a failed fetch is never stored in the cache
\* and never served to a later run.
C7_CacheHoldsLastSuccessOnly ==
    /\ cache # NoCache => ~ cache[1].failed
    /\ (trigger # "none" /\ ~ requested) =>
         /\ last_success # <<>>
         /\ models_data = last_success[1]

\* the seconds the script waits before the run that trig starts
Elapsed(trig) == IF trig = "auto" THEN AutoRefreshSleep ELSE 0

\* C8: the cache entry is invalidated by exactly two events, elapsed TTL and
\* manual refresh: the run after "Refresh Now" issues a new request even if
\* the entry is younger than the TTL, and a run with neither event (timer
\* reruns within the TTL included) issues none.
C8_InvalidatedByTtlOrRefreshNow ==
    [][ (PageLoad \/ RefreshNow \/ ToggleAutoRefresh \/ AutoRefresh) =>
          (requested' <=> \/ cache = NoCache
                          \/ age + Elapsed(trigger') >= TTL
                          \/ trigger' = "refresh_now") ]_vars

====
